---- MODULE Spec2Model ----
(***************************************************************************)
(* A model of channels/generic/websockets.py: the generic WebSocket        *)
(* consumers (WebsocketConsumer, JsonWebsocketConsumer,                    *)
(* WebsocketDemultiplexer) together with the small part of the channel     *)
(* layer they call into (Group.add / discard / send, Channel.send).        *)
(*                                                                         *)
(* A consumer instance is created per event and keeps no state of its own, *)
(* so the persistent state is the group membership held by the channel     *)
(* layer.  The variable `last` records what the most recent handler did:   *)
(* its arguments, the exception it raised (if any) and, in call order, the *)
(* calls it made into the channel layer and into user callbacks.           *)
(***************************************************************************)
EXTENDS Integers, Sequences, FiniteSets, TLC

\* ------------------------------------------------------------------ bounds

\* Longest list connection_groups() returns in the model.
MaxGroups == 2

\* Most events (order tokens 1..MaxOrder) a connection's client emits.
MaxOrder == 3

\* ------------------------------------------------------------- python data

\* Python's None, as passed for an omitted text= / bytes= argument.
None == "None"

\* A Python dict is a function from its keys to its values.
EmptyDict == [k \in {} |-> TRUE]

\* d[k] = v
Put(d, k, v) == [x \in (DOMAIN d) \cup {k} |-> IF x = k THEN v ELSE d[x]]

\* The elements of a list.
Range(s) == {s[i] : i \in DOMAIN s}

\* ------------------------------------------------------------- connections

\* The connections of the model and the name of each one's reply channel
\* (message.reply_channel: the sink outbound frames are written to).
ReplyChannelOf == [c1 |-> "websocket.send!c1", c2 |-> "websocket.send!c2"]

Conns == DOMAIN ReplyChannelOf

ReplyChannel(c) == ReplyChannelOf[c]

Sinks == {ReplyChannel(c) : c \in Conns}

\* WebsocketDemultiplexer.mapping of the model's demultiplexer: stream name
\* -> name of the channel its frames are forwarded to.
mapping == [chat |-> "chat-queue", news |-> "news-queue"]

Queues == {mapping[s] : s \in DOMAIN mapping}

\* Every channel a message can be put on.
Channels == Sinks \cup Queues

\* Group names used by the consumers of the model.
Groups == {"g1", "g2"}

\* The lists connection_groups() may return (a list may repeat a group).
GroupLists == UNION {[1..n -> Groups] : n \in 0..MaxGroups}

\* ------------------------------------------------------------------- state

VARIABLES
    groups,      \* channel layer: group name -> set of reply channels in it
    connGroups,  \* per connection: the list connection_groups(**kwargs) returns
    hist,        \* per connection: what has been processed so far
    last,        \* the most recent handler execution
    cls,         \* the consumer class's strict_ordering, slight_ordering
                 \* and http_user
    guard        \* per connection: its events in transit and the ordering
                 \* guard's view of them

vars == <<groups, connGroups, hist, last, cls, guard>>

\* One call made by a handler: into the channel layer or into a user callback.
Call(call, name, arg) == [call |-> call, name |-> name, arg |-> arg]

NoHistory == [connected |-> FALSE, lifecycle |-> "none", failed |-> FALSE]

\* A connection no event of which has been emitted: `emitted` is the kinds of
\* the events emitted so far (event n carries order token n); `inflight`,
\* `buffer` and `running` hold the tokens of the events on their way to a
\* worker, held back by the ordering guard, and inside the handler; `next`
\* is the token the guard expects; `arrived` and `log` list the tokens in
\* the order the events reached a worker and in the order their handlers ran;
\* `invalid` holds the tokens of the events whose session the identity step
\* refuses, `rejected` those it has refused.
NoEvents == [emitted |-> <<>>, inflight |-> {}, buffer |-> {}, running |-> {},
             next |-> 1, arrived |-> <<>>, log |-> <<>>,
             invalid |-> {}, rejected |-> {}]

NoOp == [op |-> "none", conn |-> "none", args |-> EmptyDict, raised |-> "",
         trace |-> <<>>, before |-> [g \in Groups |-> {}],
         sent |-> [ch \in Channels |-> <<>>]]

\* ----------------------------------------------------------- channel layer

\* One channel layer: message.channel_layer, which raw_connect and
\* raw_disconnect name, is the default layer that group_send uses.

\* Group(name).add(channel): membership is a set.
GroupAdd(gs, g, ch) == [gs EXCEPT ![g] = @ \cup {ch}]

\* Group(name).discard(channel): removing a non-member changes nothing.
GroupDiscard(gs, g, ch) == [gs EXCEPT ![g] = @ \ {ch}]

\* The calls of trace `tr` applied, in order, to the membership `gs`.
RECURSIVE Apply(_, _)
Apply(gs, tr) ==
    IF tr = <<>> THEN gs
    ELSE LET c == Head(tr)
             g1 == IF c.call = "group.add" THEN GroupAdd(gs, c.name, c.arg)
                   ELSE IF c.call = "group.discard" THEN GroupDiscard(gs, c.name, c.arg)
                   ELSE gs
         IN Apply(g1, Tail(tr))

\* Group(name).send(message): the message goes to every channel that is in
\* the group when the call is made.
GroupSend(gs, sent, g, message) ==
    [ch \in Channels |-> IF ch \in gs[g] THEN Append(sent[ch], message) ELSE sent[ch]]

\* Channel(name).send(message).
ChannelSend(sent, name, message) == [sent EXCEPT ![name] = Append(@, message)]

\* What the calls of trace `tr` put on each channel, starting from
\* membership `gs`.
RECURSIVE Sent(_, _, _)
Sent(gs, sent, tr) ==
    IF tr = <<>> THEN sent
    ELSE LET c == Head(tr)
             s1 == IF c.call = "group.send" THEN GroupSend(gs, sent, c.name, c.arg)
                   ELSE IF c.call = "channel.send" THEN ChannelSend(sent, c.name, c.arg)
                   ELSE sent
         IN Sent(Apply(gs, <<c>>), s1, Tail(tr))

\* What one handler execution amounts to: `trace` is the calls it made
\* before it returned or raised.
Outcome(op, c, args, raised, trace) ==
    [op |-> op, conn |-> c, args |-> args, raised |-> raised, trace |-> trace,
     before |-> groups, sent |-> Sent(groups, [ch \in Channels |-> <<>>], trace)]

\* ------------------------------------------------------- WebsocketConsumer

\* connection_groups(**kwargs): a function of the dispatch arguments, which
\* are those of the connection.
connection_groups(c) == connGroups[c]

\* The user callbacks connect / receive / disconnect: the base class's do
\* nothing; an override may raise.
Callback(name, arg, raises) ==
    [trace |-> <<Call("callback", name, arg)>>,
     raised |-> IF raises THEN "UserError" ELSE ""]

\* Mutant: the loop leaves after the first group.
ConnectAdds_FirstOnly(c) ==
    [i \in (DOMAIN connection_groups(c)) \cap {1} |->
        Call("group.add", connection_groups(c)[i], ReplyChannel(c))]

\* raw_connect: the loop over connection_groups.
ConnectAdds(c) ==
    [i \in DOMAIN connection_groups(c) |->
        Call("group.add", connection_groups(c)[i], ReplyChannel(c))]

\* Mutant: the loop leaves after the first group.
DisconnectDiscards_FirstOnly(c) ==
    [i \in (DOMAIN connection_groups(c)) \cap {1} |->
        Call("group.discard", connection_groups(c)[i], ReplyChannel(c))]

\* Mutant: a connection whose earlier handler raised is not cleaned up.
DisconnectDiscards_UnlessFailed(c) ==
    IF hist[c].failed THEN <<>>
    ELSE [i \in DOMAIN connection_groups(c) |->
            Call("group.discard", connection_groups(c)[i], ReplyChannel(c))]

\* raw_disconnect: the loop over connection_groups.
DisconnectDiscards(c) ==
    [i \in DOMAIN connection_groups(c) |->
        Call("group.discard", connection_groups(c)[i], ReplyChannel(c))]

\* Mutant: connect() is called first, and the groups are joined when it
\* has returned.
raw_connect_CallbackFirst(c, cbRaises) ==
    LET cb == Callback("connect", EmptyDict, cbRaises)
        tr == cb.trace \o (IF cb.raised = "" THEN ConnectAdds(c) ELSE <<>>)
    IN /\ groups' = Apply(groups, tr)
       /\ last' = Outcome("connect", c, EmptyDict, cb.raised, tr)
       /\ hist' = [hist EXCEPT ![c] = [connected |-> TRUE, lifecycle |-> "connect",
                                       failed |-> @.failed \/ cb.raised # ""]]
       /\ UNCHANGED connGroups

\* raw_connect(message): join the groups, then call connect().
raw_connect(c, cbRaises) ==
    LET cb == Callback("connect", EmptyDict, cbRaises)
        tr == ConnectAdds(c) \o cb.trace
    IN /\ groups' = Apply(groups, tr)
       /\ last' = Outcome("connect", c, EmptyDict, cb.raised, tr)
       /\ hist' = [hist EXCEPT ![c] = [connected |-> TRUE, lifecycle |-> "connect",
                                       failed |-> @.failed \/ cb.raised # ""]]
       /\ UNCHANGED connGroups

\* raw_disconnect(message): leave the groups, then call disconnect().
raw_disconnect(c, cbRaises) ==
    LET cb == Callback("disconnect", EmptyDict, cbRaises)
        tr == DisconnectDiscards(c) \o cb.trace
    IN /\ groups' = Apply(groups, tr)
       /\ last' = Outcome("disconnect", c, EmptyDict, cb.raised, tr)
       /\ hist' = [hist EXCEPT ![c].lifecycle = "disconnect"]
       /\ UNCHANGED connGroups

\* The content of the websocket.receive messages of the model: a text
\* frame, a binary frame, and the two as a server delivers them when it
\* fills the unused key with None.
Texts == {"hi"}

Bytes == {"b"}

ReceiveMessages ==
    {[text |-> t] : t \in Texts} \cup {[bytes |-> b] : b \in Bytes}
    \cup {[text |-> t, bytes |-> None] : t \in Texts}
    \cup {[text |-> None, bytes |-> b] : b \in Bytes}

\* WebsocketConsumer.raw_receive(message): hand the frame to receive().
raw_receive(c, message, cbRaises) ==
    LET kwargs == IF "text" \in DOMAIN message THEN [text |-> message["text"]]
                  ELSE [bytes |-> message["bytes"]]
        cb == Callback("receive", kwargs, cbRaises)
    IN /\ last' = Outcome("receive", c, message, cb.raised, cb.trace)
       /\ groups' = Apply(groups, cb.trace)
       /\ hist' = [hist EXCEPT ![c].failed = @ \/ cb.raised # ""]
       /\ UNCHANGED connGroups

\* Mutant: truthiness instead of "is not None" (an empty text counts as unset).
SendMessage_Truthy(text, bytes, close) ==
    LET m0 == IF close THEN Put(EmptyDict, "close", TRUE) ELSE EmptyDict
    IN IF text \notin {None, ""} THEN [raised |-> "", message |-> Put(m0, "text", text)]
       ELSE IF bytes \notin {None, ""} THEN [raised |-> "", message |-> Put(m0, "bytes", bytes)]
       ELSE [raised |-> "ValueError: You must pass text or bytes", message |-> m0]

\* Mutant: bytes is looked at first.
SendMessage_BytesFirst(text, bytes, close) ==
    LET m0 == IF close THEN Put(EmptyDict, "close", TRUE) ELSE EmptyDict
    IN IF bytes # None THEN [raised |-> "", message |-> Put(m0, "bytes", bytes)]
       ELSE IF text # None THEN [raised |-> "", message |-> Put(m0, "text", text)]
       ELSE [raised |-> "ValueError: You must pass text or bytes", message |-> m0]

\* Mutant: "if" for "elif": both fields are copied when both are given.
SendMessage_IfIf(text, bytes, close) ==
    LET m0 == IF close THEN Put(EmptyDict, "close", TRUE) ELSE EmptyDict
        m1 == IF text # None THEN Put(m0, "text", text) ELSE m0
        m2 == IF bytes # None THEN Put(m1, "bytes", bytes) ELSE m1
    IN IF text = None /\ bytes = None
       THEN [raised |-> "ValueError: You must pass text or bytes", message |-> m0]
       ELSE [raised |-> "", message |-> m2]

\* send(): the frame built from text, bytes and close, or the exception.
SendMessage(text, bytes, close) ==
    LET m0 == IF close THEN Put(EmptyDict, "close", TRUE) ELSE EmptyDict
    IN IF text # None THEN [raised |-> "", message |-> Put(m0, "text", text)]
       ELSE IF bytes # None THEN [raised |-> "", message |-> Put(m0, "bytes", bytes)]
       ELSE [raised |-> "ValueError: You must pass text or bytes", message |-> m0]

\* group_send(): the frame built from text, bytes and close, or the exception.
GroupSendMessage(text, bytes, close) ==
    LET m0 == IF close THEN Put(EmptyDict, "close", TRUE) ELSE EmptyDict
    IN IF text # None THEN [raised |-> "", message |-> Put(m0, "text", text)]
       ELSE IF bytes # None THEN [raised |-> "", message |-> Put(m0, "bytes", bytes)]
       ELSE [raised |-> "ValueError: You must pass text or bytes", message |-> m0]

\* The arguments of a send() or group_send() call, as `last` records them.
SendArgs(name, text, bytes, close) ==
    [name |-> name, text |-> text, bytes |-> bytes, close |-> close]

\* self.send(text, bytes, close) by the consumer handling a message of c.
send(c, text, bytes, close) ==
    LET r == SendMessage(text, bytes, close)
        tr == IF r.raised = "" THEN <<Call("channel.send", ReplyChannel(c), r.message)>>
              ELSE <<>>
    IN /\ last' = Outcome("send", c, SendArgs(None, text, bytes, close), r.raised, tr)
       /\ groups' = Apply(groups, tr)
       /\ UNCHANGED <<connGroups, hist>>

\* Mutant: the frame goes to the caller's own reply channel.
GroupSendCalls_ReplyOnly(c, name, message) ==
    <<Call("channel.send", ReplyChannel(c), message)>>

\* group_send(): Group(name).send(message).
GroupSendCalls(c, name, message) == <<Call("group.send", name, message)>>

\* cls.group_send(name, text, bytes, close), called while handling a
\* message of c (a classmethod: the connection plays no part in it).
group_send(c, name, text, bytes, close) ==
    LET r == GroupSendMessage(text, bytes, close)
        tr == IF r.raised = "" THEN GroupSendCalls(c, name, r.message) ELSE <<>>
    IN /\ last' = Outcome("group_send", c, SendArgs(name, text, bytes, close), r.raised, tr)
       /\ groups' = Apply(groups, tr)
       /\ UNCHANGED <<connGroups, hist>>

\* self.close() by the consumer handling a message of c.
close(c) ==
    LET tr == <<Call("channel.send", ReplyChannel(c), [close |-> TRUE])>>
    IN /\ last' = Outcome("close", c, EmptyDict, "", tr)
       /\ groups' = Apply(groups, tr)
       /\ UNCHANGED <<connGroups, hist>>

\* --------------------------------------------------- JsonWebsocketConsumer

\* Decoded JSON values, tagged with their Python type.
JStr(x) == [t |-> "str", v |-> x]

JDict(d) == [t |-> "dict", v |-> d]

JList(l) == [t |-> "list", v |-> l]

JInt(n) == [t |-> "int", v |-> n]

\* The text frames a client sends in the model.
WireGood == "{\"stream\": \"chat\", \"payload\": {\"msg\": \"hi\"}}"

WireNews == "{\"stream\": \"news\", \"payload\": {}}"

WireSpoof ==
    "{\"stream\": \"chat\", \"payload\": {\"reply_channel\": \"websocket.send!c2\", \"msg\": \"hi\"}}"

WireStrPayload == "{\"stream\": \"chat\", \"payload\": \"hi\"}"

WireNoKeys == "{\"foo\": \"bar\"}"

WireNoPayload == "{\"stream\": \"chat\"}"

WireList == "[\"stream\", \"payload\"]"

WireUnmapped == "{\"stream\": \"admin\", \"payload\": {\"msg\": \"hi\"}}"

WireUnmappedStr == "{\"stream\": \"admin\", \"payload\": \"hi\"}"

WireIntStream == "{\"stream\": 1, \"payload\": {}}"

WireListStream == "{\"stream\": [\"chat\"], \"payload\": {}}"

WireMalformed == "{\"stream\": \"chat\", "

WireTexts ==
    {WireGood, WireNews, WireSpoof, WireStrPayload, WireNoKeys, WireNoPayload,
     WireList, WireUnmapped, WireUnmappedStr, WireIntStream, WireListStream,
     WireMalformed}

Returned(value) == [raised |-> "", value |-> value]

Raised(exc) == [raised |-> exc, value |-> None]

\* json.loads(text) on the texts of the model.
JsonLoads(text) ==
    CASE text = WireGood ->
            Returned(JDict([stream |-> JStr("chat"),
                            payload |-> JDict([msg |-> JStr("hi")])]))
      [] text = WireNews ->
            Returned(JDict([stream |-> JStr("news"), payload |-> JDict(EmptyDict)]))
      [] text = WireSpoof ->
            Returned(JDict([stream |-> JStr("chat"),
                            payload |-> JDict([reply_channel |-> JStr("websocket.send!c2"),
                                               msg |-> JStr("hi")])]))
      [] text = WireStrPayload ->
            Returned(JDict([stream |-> JStr("chat"), payload |-> JStr("hi")]))
      [] text = WireNoKeys -> Returned(JDict([foo |-> JStr("bar")]))
      [] text = WireNoPayload -> Returned(JDict([stream |-> JStr("chat")]))
      [] text = WireList -> Returned(JList(<<JStr("stream"), JStr("payload")>>))
      [] text = WireUnmapped ->
            Returned(JDict([stream |-> JStr("admin"),
                            payload |-> JDict([msg |-> JStr("hi")])]))
      [] text = WireUnmappedStr ->
            Returned(JDict([stream |-> JStr("admin"), payload |-> JStr("hi")]))
      [] text = WireIntStream ->
            Returned(JDict([stream |-> JInt(1), payload |-> JDict(EmptyDict)]))
      [] text = WireListStream ->
            Returned(JDict([stream |-> JList(<<JStr("chat")>>),
                            payload |-> JDict(EmptyDict)]))
      [] text = None -> Raised("TypeError: the JSON object must be str")
      [] OTHER -> Raised("ValueError: JSONDecodeError")

\* The websocket.receive messages a JSON consumer is given in the model.
JsonMessages ==
    {[text |-> w] : w \in WireTexts} \cup {[bytes |-> b] : b \in Bytes}
    \cup {[text |-> None, bytes |-> b] : b \in Bytes}

\* Mutant: a frame without text has its bytes decoded.
JsonContent_DecodesBytes(message) ==
    IF "text" \in DOMAIN message THEN JsonLoads(message["text"])
    ELSE JsonLoads(message["bytes"])

\* JsonWebsocketConsumer.raw_receive, up to the call of receive(): the
\* decoded content, or the exception.
JsonContent(message) ==
    IF "text" \in DOMAIN message THEN JsonLoads(message["text"])
    ELSE Raised("ValueError: No text section for incoming WebSocket frame!")

\* JsonWebsocketConsumer.raw_receive(message) of a consumer whose receive()
\* is the user's callback.
json_raw_receive(c, message, cbRaises) ==
    LET content == JsonContent(message)
        cb == IF content.raised = "" THEN Callback("receive", content.value, cbRaises)
              ELSE [trace |-> <<>>, raised |-> content.raised]
    IN /\ last' = Outcome("json.receive", c, message, cb.raised, cb.trace)
       /\ groups' = Apply(groups, cb.trace)
       /\ hist' = [hist EXCEPT ![c].failed = @ \/ cb.raised # ""]
       /\ UNCHANGED connGroups

\* -------------------------------------------------- WebsocketDemultiplexer

\* isinstance(x, dict)
IsDict(x) == x.t = "dict"

\* Python can hash x (a list or a dict it cannot).
Hashable(x) == x.t \notin {"list", "dict"}

\* "stream" in self.mapping, for a hashable stream.
InMapping(stream) == stream.t = "str" /\ stream.v \in DOMAIN mapping

\* self.message['reply_channel']: the name of the connection's reply channel.
MessageReplyChannel(c) == JStr(ReplyChannel(c))

\* Mutant: no whitelist: a stream that is not mapped is forwarded to the
\* channel of its own name.
DemuxReceive_NoWhitelist(c, content) ==
    IF IsDict(content) /\ "stream" \in DOMAIN content.v /\ "payload" \in DOMAIN content.v
    THEN LET stream == content.v["stream"]
             payload == content.v["payload"]
         IN IF ~Hashable(stream)
            THEN [raised |-> "TypeError: unhashable type", trace |-> <<>>]
            ELSE IF ~IsDict(payload)
            THEN [raised |-> "ValueError: Multiplexed frame payload is not a dict",
                  trace |-> <<>>]
            ELSE [raised |-> "",
                  trace |-> <<Call("channel.send",
                                   IF InMapping(stream) THEN mapping[stream.v] ELSE stream.v,
                                   Put(payload.v, "reply_channel",
                                       MessageReplyChannel(c)))>>]
    ELSE [raised |-> "ValueError: Invalid multiplexed frame received (no channel/payload key)",
          trace |-> <<>>]

\* Mutant: the whole envelope is forwarded, not its payload.
DemuxReceive_SendsEnvelope(c, content) ==
    IF IsDict(content) /\ "stream" \in DOMAIN content.v /\ "payload" \in DOMAIN content.v
    THEN LET stream == content.v["stream"]
             payload == content.v["payload"]
         IN IF ~Hashable(stream)
            THEN [raised |-> "TypeError: unhashable type", trace |-> <<>>]
            ELSE IF InMapping(stream)
            THEN IF ~IsDict(payload)
                 THEN [raised |-> "ValueError: Multiplexed frame payload is not a dict",
                       trace |-> <<>>]
                 ELSE [raised |-> "",
                       trace |-> <<Call("channel.send", mapping[stream.v],
                                        Put(content.v, "reply_channel",
                                            MessageReplyChannel(c)))>>]
            ELSE [raised |-> "ValueError: Invalid multiplexed frame received (stream not mapped)",
                  trace |-> <<>>]
    ELSE [raised |-> "ValueError: Invalid multiplexed frame received (no channel/payload key)",
          trace |-> <<>>]

\* Mutant: the payload's type is not checked, so the item assignment is
\* what fails on a payload that is no dict.
DemuxReceive_NoPayloadCheck(c, content) ==
    IF IsDict(content) /\ "stream" \in DOMAIN content.v /\ "payload" \in DOMAIN content.v
    THEN LET stream == content.v["stream"]
             payload == content.v["payload"]
         IN IF ~Hashable(stream)
            THEN [raised |-> "TypeError: unhashable type", trace |-> <<>>]
            ELSE IF InMapping(stream)
            THEN IF ~IsDict(payload)
                 THEN [raised |-> "TypeError: object does not support item assignment",
                       trace |-> <<>>]
                 ELSE [raised |-> "",
                       trace |-> <<Call("channel.send", mapping[stream.v],
                                        Put(payload.v, "reply_channel",
                                            MessageReplyChannel(c)))>>]
            ELSE [raised |-> "ValueError: Invalid multiplexed frame received (stream not mapped)",
                  trace |-> <<>>]
    ELSE [raised |-> "ValueError: Invalid multiplexed frame received (no channel/payload key)",
          trace |-> <<>>]

\* Mutant: reply_channel is set only where the payload has none.
DemuxReceive_SetDefault(c, content) ==
    IF IsDict(content) /\ "stream" \in DOMAIN content.v /\ "payload" \in DOMAIN content.v
    THEN LET stream == content.v["stream"]
             payload == content.v["payload"]
         IN IF ~Hashable(stream)
            THEN [raised |-> "TypeError: unhashable type", trace |-> <<>>]
            ELSE IF InMapping(stream)
            THEN IF ~IsDict(payload)
                 THEN [raised |-> "ValueError: Multiplexed frame payload is not a dict",
                       trace |-> <<>>]
                 ELSE [raised |-> "",
                       trace |-> <<Call("channel.send", mapping[stream.v],
                                        IF "reply_channel" \in DOMAIN payload.v
                                        THEN payload.v
                                        ELSE Put(payload.v, "reply_channel",
                                                 MessageReplyChannel(c)))>>]
            ELSE [raised |-> "ValueError: Invalid multiplexed frame received (stream not mapped)",
                  trace |-> <<>>]
    ELSE [raised |-> "ValueError: Invalid multiplexed frame received (no channel/payload key)",
          trace |-> <<>>]

\* Mutant: a frame that is refused closes the connection: a close frame is
\* put on the reply channel before the exception is raised.
DemuxReceive_ClosesOnError(c, content) ==
    LET closing == <<Call("channel.send", ReplyChannel(c), [close |-> TRUE])>>
    IN
    IF IsDict(content) /\ "stream" \in DOMAIN content.v /\ "payload" \in DOMAIN content.v
    THEN LET stream == content.v["stream"]
             payload == content.v["payload"]
         IN IF ~Hashable(stream)
            THEN [raised |-> "TypeError: unhashable type", trace |-> <<>>]
            ELSE IF InMapping(stream)
            THEN IF ~IsDict(payload)
                 THEN [raised |-> "ValueError: Multiplexed frame payload is not a dict",
                       trace |-> closing]
                 ELSE [raised |-> "",
                       trace |-> <<Call("channel.send", mapping[stream.v],
                                        Put(payload.v, "reply_channel",
                                            MessageReplyChannel(c)))>>]
            ELSE [raised |-> "ValueError: Invalid multiplexed frame received (stream not mapped)",
                  trace |-> closing]
    ELSE [raised |-> "ValueError: Invalid multiplexed frame received (no channel/payload key)",
          trace |-> closing]

\* WebsocketDemultiplexer.receive(content): the exception it raises, if
\* any, and the calls it makes.
DemuxReceive(c, content) ==
    IF IsDict(content) /\ "stream" \in DOMAIN content.v /\ "payload" \in DOMAIN content.v
    THEN LET stream == content.v["stream"]
             payload == content.v["payload"]
         IN IF ~Hashable(stream)
            THEN [raised |-> "TypeError: unhashable type", trace |-> <<>>]
            ELSE IF InMapping(stream)
            THEN IF ~IsDict(payload)
                 THEN [raised |-> "ValueError: Multiplexed frame payload is not a dict",
                       trace |-> <<>>]
                 ELSE [raised |-> "",
                       trace |-> <<Call("channel.send", mapping[stream.v],
                                        Put(payload.v, "reply_channel",
                                            MessageReplyChannel(c)))>>]
            ELSE [raised |-> "ValueError: Invalid multiplexed frame received (stream not mapped)",
                  trace |-> <<>>]
    ELSE [raised |-> "ValueError: Invalid multiplexed frame received (no channel/payload key)",
          trace |-> <<>>]

\* raw_receive(message) of a WebsocketDemultiplexer: the inherited
\* JsonWebsocketConsumer.raw_receive, whose receive() is the demultiplexer's.
demux_raw_receive(c, message) ==
    LET content == JsonContent(message)
        r == IF content.raised = "" THEN DemuxReceive(c, content.value)
             ELSE [raised |-> content.raised, trace |-> <<>>]
    IN /\ last' = Outcome("demux.receive", c, message, r.raised, r.trace)
       /\ groups' = Apply(groups, r.trace)
       /\ hist' = [hist EXCEPT ![c].failed = @ \/ r.raised # ""]
       /\ UNCHANGED connGroups

\* ------------------------------------- WebsocketDemultiplexer, outbound

\* The text json.dumps writes, as the sequence of its JSON tokens: the
\* punctuation marks, the string literals and the number literals.
Punct(p) == [k |-> "punct", v |-> p]

StrTok(x) == [k |-> "string", v |-> x]

NumTok(n) == [k |-> "number", v |-> n]

\* A datetime, by its ISO 8601 form: a value that is not JSON's but that
\* DjangoJSONEncoder serialises.
JDate(iso) == [t |-> "datetime", v |-> iso]

\* json.dumps(x, cls=DjangoJSONEncoder): strings and numbers as literals, a
\* datetime as the string of its ISO form, a list between brackets, a dict
\* as key: value members between braces.
RECURSIVE JsonDumps(_), DumpsItems(_, _), DumpsMembers(_, _)
JsonDumps(x) ==
    CASE x.t = "str" -> <<StrTok(x.v)>>
      [] x.t = "int" -> <<NumTok(x.v)>>
      [] x.t = "datetime" -> <<StrTok(x.v)>>
      [] x.t = "list" -> <<Punct("[")>> \o DumpsItems(x.v, 1) \o <<Punct("]")>>
      [] x.t = "dict" ->
            <<Punct("{")>> \o DumpsMembers(x.v, DOMAIN x.v) \o <<Punct("}")>>

DumpsItems(l, i) ==
    IF i > Len(l) THEN <<>>
    ELSE (IF i > 1 THEN <<Punct(",")>> ELSE <<>>)
         \o JsonDumps(l[i]) \o DumpsItems(l, i + 1)

DumpsMembers(d, keys) ==
    IF keys = {} THEN <<>>
    ELSE LET key == CHOOSE x \in keys : TRUE
         IN <<StrTok(key), Punct(":")>> \o JsonDumps(d[key])
            \o (IF keys = {key} THEN <<>> ELSE <<Punct(",")>>)
            \o DumpsMembers(d, keys \ {key})

\* Mutant: the payload alone is serialised, without the envelope.
DemuxEncode_PayloadOnly(stream, payload) == [text |-> JsonDumps(payload)]

\* WebsocketDemultiplexer.encode(stream, payload)
DemuxEncode(stream, payload) ==
    [text |-> JsonDumps(JDict([stream |-> JStr(stream), payload |-> payload]))]

\* WebsocketDemultiplexer.send(stream, payload) by the consumer handling a
\* message of c.
demux_send(c, stream, payload) ==
    LET tr == <<Call("channel.send", ReplyChannel(c), DemuxEncode(stream, payload))>>
    IN /\ last' = Outcome("demux.send", c, [stream |-> stream, payload |-> payload],
                          "", tr)
       /\ groups' = Apply(groups, tr)
       /\ UNCHANGED <<connGroups, hist>>

\* WebsocketDemultiplexer.group_send(name, stream, payload, close), called
\* while handling a message of c (a classmethod: the connection plays no
\* part in it).
demux_group_send(c, name, stream, payload, cl) ==
    LET encoded == DemuxEncode(stream, payload)
        message == IF cl THEN Put(encoded, "close", TRUE) ELSE encoded
        tr == <<Call("group.send", name, message)>>
    IN /\ last' = Outcome("demux.group_send", c,
                          [name |-> name, stream |-> stream, payload |-> payload,
                           close |-> cl], "", tr)
       /\ groups' = Apply(groups, tr)
       /\ UNCHANGED <<connGroups, hist>>

\* ------------------------------------------------ get_handler and ordering

\* Mutant: strict_ordering is not looked at.
OrderingMode_NoStrict(k) == IF k.slight_ordering THEN "slight" ELSE "off"

\* Mutant: the slight_ordering branch is missing.
OrderingMode_NoSlight(k) == IF k.strict_ordering THEN "strict" ELSE "off"

\* Mutant: slight_ordering is looked at first.
OrderingMode_SlightFirst(k) ==
    IF k.slight_ordering THEN "slight"
    ELSE IF k.strict_ordering THEN "strict"
    ELSE "off"

\* get_handler: the ordering decorator put around the handler of class k:
\* enforce_ordering(slight=False), enforce_ordering(slight=True) or none.
OrderingMode(k) ==
    IF k.strict_ordering THEN "strict"
    ELSE IF k.slight_ordering THEN "slight"
    ELSE "off"

\* method_mapping: the handler method of each kind of event.
method_mapping ==
    [connect |-> "raw_connect", receive |-> "raw_receive",
     disconnect |-> "raw_disconnect"]

\* The slight guard orders only the events up to this token (the connect).
SlightWindow == 1

\* enforce_ordering: whether the decorator of mode `mode`, expecting token
\* `next`, is still ordering events.
GuardActive(mode, next) ==
    mode = "strict" \/ (mode = "slight" /\ next <= SlightWindow)

\* enforce_ordering: whether the event with token n may enter the handler
\* now; an event that may not is held back until it may.
Admits(mode, next, n) == ~GuardActive(mode, next) \/ n = next

\* Mutant: http_user is not looked at.
HandlerStack_NoIdentity(k) ==
    (IF OrderingMode(k) # "off" THEN <<"enforce_ordering">> ELSE <<>>)
    \o <<"method">>

\* Mutant: the HTTP user transfer is put on last, around the ordering
\* decorator.
HandlerStack_IdentityOutermost(k) ==
    (IF k.http_user THEN <<"channel_session_user_from_http">> ELSE <<>>)
    \o (IF OrderingMode(k) # "off" THEN <<"enforce_ordering">> ELSE <<>>)
    \o <<"method">>

\* get_handler: the decorators around the handler method of class k, from
\* the outermost in: the HTTP user transfer is put on first, the ordering
\* decorator around it.
HandlerStack(k) ==
    (IF OrderingMode(k) # "off" THEN <<"enforce_ordering">> ELSE <<>>)
    \o (IF k.http_user THEN <<"channel_session_user_from_http">> ELSE <<>>)
    \o <<"method">>

\* The identity step of the stack runs before its ordering decorator does.
IdentityOutside(stack) ==
    \E i, j \in DOMAIN stack :
        /\ i < j
        /\ stack[i] = "channel_session_user_from_http"
        /\ stack[j] = "enforce_ordering"

\* The identity step of the stack runs once the ordering decorator (if any)
\* has let the event in.
IdentityInside(stack) ==
    /\ "channel_session_user_from_http" \in Range(stack)
    /\ ~IdentityOutside(stack)

\* The client of c emits its next event: a connection opens with a connect,
\* goes on with receives and ends with a disconnect.  Where identity is
\* attached, the session the event comes with may be one the identity step
\* refuses.
Emit(c) ==
    LET e == guard[c].emitted
        n == Len(e) + 1
    IN /\ n <= MaxOrder
       /\ \E kind \in DOMAIN method_mapping,
             refused \in (IF cls.http_user THEN BOOLEAN ELSE {FALSE}) :
             /\ (n = 1) = (kind = "connect")
             /\ n > 1 => e[n - 1] # "disconnect"
             /\ guard' = [guard EXCEPT
                   ![c].emitted = Append(e, kind),
                   ![c].inflight = @ \cup {n},
                   ![c].invalid = IF refused THEN @ \cup {n} ELSE @]
       /\ UNCHANGED <<groups, connGroups, hist, last, cls>>

\* A worker takes an event of c off the channel layer, in whatever order the
\* layer hands them out, and calls the handler get_handler returned: the
\* event enters the handler or is held back by the ordering decorator.
Deliver(c) ==
    \E n \in guard[c].inflight :
        /\ guard' =
              IF IdentityOutside(HandlerStack(cls)) /\ n \in guard[c].invalid
              THEN [guard EXCEPT
                      ![c].inflight = @ \ {n},
                      ![c].arrived = Append(@, n),
                      ![c].rejected = @ \cup {n}]
              ELSE [guard EXCEPT
                      ![c].inflight = @ \ {n},
                      ![c].arrived = Append(@, n),
                      ![c].running = IF Admits(OrderingMode(cls), guard[c].next, n)
                                     THEN @ \cup {n} ELSE @,
                      ![c].buffer = IF Admits(OrderingMode(cls), guard[c].next, n)
                                    THEN @ ELSE @ \cup {n}]
        /\ UNCHANGED <<groups, connGroups, hist, last, cls>>

\* An event that was held back enters the handler once it may.
Release(c) ==
    \E n \in guard[c].buffer :
        /\ Admits(OrderingMode(cls), guard[c].next, n)
        /\ guard' = [guard EXCEPT ![c].buffer = @ \ {n}, ![c].running = @ \cup {n}]
        /\ UNCHANGED <<groups, connGroups, hist, last, cls>>

\* The guard's state once the handler of event n of c has run.
Ran(c, n) ==
    [guard EXCEPT
        ![c].running = @ \ {n},
        ![c].log = Append(@, n),
        ![c].next = IF GuardActive(OrderingMode(cls), @) /\ n = @ THEN @ + 1 ELSE @]

\* channel_session_user_from_http refuses the event: the handler method is
\* not called and nothing is raised.
Refuse(c, kind) ==
    /\ last' = Outcome("rejected", c, [kind |-> kind], "", <<>>)
    /\ UNCHANGED <<groups, connGroups, hist>>

\* The handler of an event of c that entered it runs: the identity step, if
\* the class has one, and then the method that method_mapping names for the
\* event's kind.
Run(c) ==
    \E n \in guard[c].running :
        LET kind == guard[c].emitted[n]
            method == method_mapping[kind]
            refused == IdentityInside(HandlerStack(cls)) /\ n \in guard[c].invalid
        IN /\ \/ refused /\ Refuse(c, kind)
              \/ ~refused /\ method = "raw_connect" /\ raw_connect(c, FALSE)
              \/ ~refused /\ method = "raw_receive"
                    /\ raw_receive(c, [text |-> "hi"], FALSE)
              \/ ~refused /\ method = "raw_disconnect" /\ raw_disconnect(c, FALSE)
           /\ guard' = [Ran(c, n) EXCEPT
                          ![c].rejected = IF refused THEN @ \cup {n} ELSE @]
           /\ UNCHANGED cls

\* ------------------------------------------------------------------- specs

Init ==
    /\ groups = [g \in Groups |-> {}]
    /\ connGroups \in [Conns -> GroupLists]
    /\ hist = [c \in Conns |-> NoHistory]
    /\ last = NoOp
    /\ cls = [strict_ordering |-> FALSE, slight_ordering |-> FALSE,
              http_user |-> FALSE]
    /\ guard = [c \in Conns |-> NoEvents]

OnConnect ==
    /\ \E c \in Conns, cbRaises \in BOOLEAN : raw_connect(c, cbRaises)
    /\ UNCHANGED <<cls, guard>>

OnDisconnect ==
    /\ \E c \in Conns, cbRaises \in BOOLEAN : raw_disconnect(c, cbRaises)
    /\ UNCHANGED <<cls, guard>>

OnReceive ==
    /\ \E c \in Conns, message \in ReceiveMessages, cbRaises \in BOOLEAN :
          raw_receive(c, message, cbRaises)
    /\ UNCHANGED <<cls, guard>>

\* The dispatcher: connect, receive and disconnect events of the connections,
\* in any order, handled by a WebsocketConsumer.
Next == OnConnect \/ OnReceive \/ OnDisconnect

Spec == Init /\ [][Next]_vars

\* The values passed as text= and bytes=.
TextArgs == Texts \cup {"", None}

BytesArgs == Bytes \cup {None}

Send ==
    /\ \E c \in Conns, text \in TextArgs, bytes \in BytesArgs, cl \in BOOLEAN :
          send(c, text, bytes, cl)
    /\ UNCHANGED <<cls, guard>>

GroupSendTo ==
    /\ \E c \in Conns, name \in Groups, text \in TextArgs, bytes \in BytesArgs,
          cl \in BOOLEAN :
          group_send(c, name, text, bytes, cl)
    /\ UNCHANGED <<cls, guard>>

Close == (\E c \in Conns : close(c)) /\ UNCHANGED <<cls, guard>>

\* Connections come and go (their callbacks returning normally) while the
\* consumers handling their messages use send, group_send and close.
Join == (\E c \in Conns : raw_connect(c, FALSE)) /\ UNCHANGED <<cls, guard>>

Leave == (\E c \in Conns : raw_disconnect(c, FALSE)) /\ UNCHANGED <<cls, guard>>

\* For the send primitives only the set of groups a connection joins matters:
\* the lists that name no group twice.
InitSend ==
    /\ Init
    /\ \A c \in Conns : Cardinality(Range(connGroups[c])) = Len(connGroups[c])

NextSend == Join \/ Leave \/ Send \/ GroupSendTo \/ Close

SpecSend == InitSend /\ [][NextSend]_vars

OnJsonReceive ==
    /\ \E c \in Conns, message \in JsonMessages, cbRaises \in BOOLEAN :
          json_raw_receive(c, message, cbRaises)
    /\ UNCHANGED <<cls, guard>>

OnDemuxReceive ==
    /\ \E c \in Conns, message \in JsonMessages : demux_raw_receive(c, message)
    /\ UNCHANGED <<cls, guard>>

\* Connections come and go while their frames are handled by a
\* JsonWebsocketConsumer or by a WebsocketDemultiplexer.
NextDemux == Join \/ Leave \/ OnJsonReceive \/ OnDemuxReceive

\* The groups play no part in decoding and routing: one choice of them.
InitDemux ==
    /\ Init
    /\ connGroups = [c1 |-> <<"g1", "g2">>, c2 |-> <<"g1">>]

SpecDemux == InitDemux /\ [][NextDemux]_vars

\* The stream names and payloads that the consumers of the model send
\* through a demultiplexer: strings, numbers, lists and dicts, nested, and
\* payloads that hold a datetime.
EncodeStreams == {"chat", "admin"}

EncodePayloads ==
    <<JDict([msg |-> JStr("hi")]),
      JDict(EmptyDict),
      JDict([msg |-> JStr("hi"), count |-> JInt(1)]),
      JDict([items |-> JList(<<JStr("hi"), JInt(1)>>)]),
      JDict([inner |-> JDict([msg |-> JStr("hi"), more |-> JList(<<>>)])]),
      JDict([stream |-> JStr("news"), payload |-> JDict(EmptyDict)]),
      JList(<<>>),
      JList(<<JDict(EmptyDict), JList(<<JInt(1)>>), JStr("hi")>>),
      JStr("hi"),
      JStr(""),
      JInt(1),
      JDate("2016-01-01T00:00:00"),
      JDict([at |-> JDate("2016-01-01T00:00:00")])>>

OnDemuxSend ==
    /\ \E c \in Conns, stream \in EncodeStreams, i \in DOMAIN EncodePayloads :
          demux_send(c, stream, EncodePayloads[i])
    /\ UNCHANGED <<cls, guard>>

OnDemuxGroupSend ==
    /\ \E c \in Conns, name \in Groups, stream \in EncodeStreams,
          i \in DOMAIN EncodePayloads, cl \in BOOLEAN :
          demux_group_send(c, name, stream, EncodePayloads[i], cl)
    /\ UNCHANGED <<cls, guard>>

\* Connections come and go while the consumers handling their messages
\* send through a demultiplexer.
NextEncode == Join \/ Leave \/ OnDemuxSend \/ OnDemuxGroupSend

SpecEncode == InitDemux /\ [][NextEncode]_vars

\* The guard keeps its state per connection: one connection's events are
\* followed.
OrderConns == {"c1"}

\* The classes of the model: every setting of the two ordering attributes
\* and of http_user.
InitOrder ==
    /\ groups = [g \in Groups |-> {}]
    /\ connGroups = [c1 |-> <<"g1", "g2">>, c2 |-> <<"g1">>]
    /\ hist = [c \in Conns |-> NoHistory]
    /\ last = NoOp
    /\ cls \in [strict_ordering : BOOLEAN, slight_ordering : BOOLEAN,
                 http_user : BOOLEAN]
    /\ guard = [c \in Conns |-> NoEvents]

\* The events of the connections travel through the channel layer, which
\* may reorder them, to workers that run them concurrently.
NextOrder ==
    \E c \in OrderConns : Emit(c) \/ Deliver(c) \/ Release(c) \/ Run(c)

SpecOrder == InitOrder /\ [][NextOrder]_vars

\* Workers keep taking events off the channel layer and handlers return: an
\* event that can be delivered, released or run eventually is.
FairOrder ==
    \A c \in OrderConns :
        WF_vars(Deliver(c)) /\ WF_vars(Release(c)) /\ WF_vars(Run(c))

SpecOrderFair == SpecOrder /\ FairOrder

\* ------------------------------------------------------------------ claims

\* Nothing was put on any channel by the last handler.
NothingSent == \A ch \in Channels : last.sent[ch] = <<>>

\* The last handler put exactly `message` on channel `ch` and nothing else
\* anywhere.
OnlySent(ch, message) ==
    \A x \in Channels : last.sent[x] = IF x = ch THEN <<message>> ELSE <<>>

\* C1: once a connect and, later, a disconnect of a connection have been
\* processed, the connection's reply channel is in none of the groups that
\* connect added it to, whatever list connection_groups returns.
C1_ConnectDisconnectCleanup ==
    \A c \in Conns :
        hist[c].connected /\ hist[c].lifecycle = "disconnect" =>
            \A i \in DOMAIN ConnectAdds(c) :
                ReplyChannel(c) \notin groups[ConnectAdds(c)[i].name]

\* A disconnect has just taken a connection out of two different groups that
\* its connect had put it in.
C1_Witness ==
    \E c \in Conns :
        /\ last.op = "disconnect" /\ last.conn = c /\ hist[c].connected
        /\ Cardinality(Range(connection_groups(c))) = 2
        /\ \A g \in Range(connection_groups(c)) :
              ReplyChannel(c) \in last.before[g] /\ ReplyChannel(c) \notin groups[g]

\* C9: when an earlier connect or receive of a connection raised, a later
\* disconnect still leaves the connection's reply channel in none of the
\* groups of connection_groups.
C9_CleanupAfterFailure ==
    \A c \in Conns :
        hist[c].failed /\ hist[c].lifecycle = "disconnect" =>
            \A g \in Range(connection_groups(c)) : ReplyChannel(c) \notin groups[g]

\* The connect callback of a connection raised after the joins, and the
\* disconnect that followed took the connection out of its group.
C9_Witness ==
    \E c \in Conns :
        /\ last.op = "disconnect" /\ last.conn = c
        /\ hist[c].failed /\ hist[c].connected
        /\ \E g \in Range(connection_groups(c)) :
              ReplyChannel(c) \in last.before[g] /\ ReplyChannel(c) \notin groups[g]

\* Whether a text= / bytes= argument is set.
IsSet(x) == x # None

\* The frame a send with one payload field is to write: that field, and
\* close exactly when asked for.
OneFieldFrame(key, value, cl) ==
    [k \in {key} \cup (IF cl THEN {"close"} ELSE {}) |->
        IF k = key THEN value ELSE TRUE]

\* C5: a send with exactly one of text and bytes set writes to the reply
\* channel one frame holding only that field, and close exactly when close
\* was asked for; a send with neither set raises ValueError, whatever close
\* is, and writes nothing.
C5_SendFrameShape ==
    last.op = "send" =>
        LET a == last.args
            reply == ReplyChannel(last.conn)
        IN /\ IsSet(a.text) /\ ~IsSet(a.bytes) =>
                last.raised = "" /\ OnlySent(reply, OneFieldFrame("text", a.text, a.close))
           /\ ~IsSet(a.text) /\ IsSet(a.bytes) =>
                last.raised = "" /\ OnlySent(reply, OneFieldFrame("bytes", a.bytes, a.close))
           /\ ~IsSet(a.text) /\ ~IsSet(a.bytes) =>
                last.raised = "ValueError: You must pass text or bytes" /\ NothingSent

\* A send of an empty text with close wrote the frame {close, text: ""}.
C5_Witness ==
    /\ last.op = "send" /\ last.args.text = "" /\ last.args.bytes = None
    /\ last.args.close
    /\ last.sent[ReplyChannel(last.conn)] = <<[close |-> TRUE, text |-> ""]>>

\* C6, as stated: a send or group_send with both text and bytes set raises
\* ValueError and writes no frame.
C6_BothSetRaises ==
    last.op \in {"send", "group_send"} /\ IsSet(last.args.text) /\ IsSet(last.args.bytes)
        => last.raised # "" /\ NothingSent

\* C6, amended: a send or group_send with both text and bytes set does not
\* raise: it makes one call with a frame that holds the text only (and
\* close exactly when asked for), the bytes being ignored; send makes it on
\* the reply channel, group_send on the named group.
C6_BothSetSendsText ==
    last.op \in {"send", "group_send"} /\ IsSet(last.args.text) /\ IsSet(last.args.bytes)
        => /\ last.raised = ""
           /\ Len(last.trace) = 1
           /\ last.trace[1].arg = OneFieldFrame("text", last.args.text, last.args.close)
           /\ last.op = "send" =>
                /\ last.trace[1].call = "channel.send"
                /\ last.trace[1].name = ReplyChannel(last.conn)
           /\ last.op = "group_send" =>
                /\ last.trace[1].call = "group.send"
                /\ last.trace[1].name = last.args.name

\* A send with both set wrote the text frame to the reply channel.
C6_Witness ==
    /\ last.op = "send" /\ last.args.text = "hi" /\ last.args.bytes = "b"
    /\ last.sent[ReplyChannel(last.conn)] = <<[text |-> "hi"]>>

\* The frames of the calls of the last handler that write a frame.
FramesWritten ==
    {last.trace[i].arg : i \in {j \in DOMAIN last.trace :
                                   last.trace[j].call \in {"channel.send", "group.send"}}}

\* A payload field of a frame is populated.
Populated(f, key) == key \in DOMAIN f /\ f[key] # None

\* C7: a frame written by send, group_send or close never has both text and
\* bytes populated; one written by send or group_send (a data frame) has
\* exactly one of them; close() writes exactly the frame {close: True}, with
\* neither, to the connection's reply channel.
C7_OutboundFrameInvariant ==
    last.op \in {"send", "group_send", "close"} =>
        /\ \A f \in FramesWritten : ~(Populated(f, "text") /\ Populated(f, "bytes"))
        /\ last.op \in {"send", "group_send"} =>
              \A f \in FramesWritten : Populated(f, "text") \/ Populated(f, "bytes")
        /\ last.op = "close" =>
              /\ last.trace = <<Call("channel.send", ReplyChannel(last.conn), [close |-> TRUE])>>
              /\ OnlySent(ReplyChannel(last.conn), [close |-> TRUE])

\* A send given both text and bytes, and close, wrote a frame with the text
\* alone.
C7_Witness ==
    /\ last.op = "send" /\ IsSet(last.args.text) /\ IsSet(last.args.bytes)
    /\ last.args.close
    /\ FramesWritten = {[close |-> TRUE, text |-> last.args.text]}

\* C8: a group_send with exactly one of text and bytes set never raises,
\* whether or not the caller's connection is in the group; its frame reaches
\* each channel that was in the named group when it was called, once, and no
\* other channel; and it leaves every group's membership as it was.
C8_GroupSendFanOut ==
    last.op = "group_send" /\ (IsSet(last.args.text) # IsSet(last.args.bytes)) =>
        /\ last.raised = ""
        /\ Len(last.trace) = 1
        /\ \A ch \in Channels :
              last.sent[ch] = IF ch \in last.before[last.args.name]
                              THEN <<last.trace[1].arg>> ELSE <<>>
        /\ groups = last.before

\* A connection that is not in the group sent to it: the frame reached the
\* group's member and not the sender.
C8_Witness ==
    /\ last.op = "group_send" /\ last.raised = ""
    /\ ReplyChannel(last.conn) \notin groups[last.args.name]
    /\ groups[last.args.name] # {}
    /\ \A ch \in groups[last.args.name] : Len(last.sent[ch]) = 1
    /\ last.sent[ReplyChannel(last.conn)] = <<>>

\* The exceptions of the model that are ValueErrors.
ValueErrors ==
    {"ValueError: You must pass text or bytes",
     "ValueError: JSONDecodeError",
     "ValueError: No text section for incoming WebSocket frame!",
     "ValueError: Multiplexed frame payload is not a dict",
     "ValueError: Invalid multiplexed frame received (stream not mapped)",
     "ValueError: Invalid multiplexed frame received (no channel/payload key)"}

\* The last handler made no Channel(...).send call.
NoChannelSend == \A i \in DOMAIN last.trace : last.trace[i].call # "channel.send"

\* The frame of the last receive decoded to a JSON object.
DecodedObject ==
    /\ JsonContent(last.args).raised = ""
    /\ JsonContent(last.args).value.t = "dict"

\* The keys and values of that object.
Envelope == JsonContent(last.args).value.v

\* The object has a stream key and a payload key.
HasEnvelopeKeys == DecodedObject /\ {"stream", "payload"} \subseteq DOMAIN Envelope

\* The object's stream is a name (a string) that the mapping holds.
StreamIsMapped ==
    /\ DecodedObject /\ "stream" \in DOMAIN Envelope
    /\ Envelope["stream"].t = "str" /\ Envelope["stream"].v \in DOMAIN mapping

\* The object's stream is a name (a string) that the mapping does not hold.
StreamIsUnmapped ==
    /\ DecodedObject /\ "stream" \in DOMAIN Envelope
    /\ Envelope["stream"].t = "str" /\ Envelope["stream"].v \notin DOMAIN mapping

\* C2: every message a demultiplexer forwards goes to the channel that the
\* mapping gives for the frame's stream; a frame whose stream name is not in
\* the mapping raises ValueError and forwards nothing, whether or not its
\* payload is an object.
C2_WhitelistBoundary ==
    last.op = "demux.receive" =>
        /\ \A i \in DOMAIN last.trace :
              last.trace[i].call = "channel.send" =>
                  /\ StreamIsMapped
                  /\ last.trace[i].name = mapping[Envelope["stream"].v]
        /\ StreamIsUnmapped => last.raised \in ValueErrors /\ NoChannelSend

\* A frame for a stream that is not mapped, with a payload that is an
\* object, was refused.
C2_Witness ==
    /\ last.op = "demux.receive" /\ last.args = [text |-> WireUnmapped]
    /\ last.raised = "ValueError: Invalid multiplexed frame received (stream not mapped)"
    /\ NothingSent

\* C3: a frame that decodes to an object with a mapped stream and an object
\* payload makes the demultiplexer forward exactly one message, to the
\* mapped channel: the payload with reply_channel set to the connection's
\* reply channel; it makes no other call, so no receive callback runs.
C3_SuccessfulDemultiplexing ==
    last.op = "demux.receive" /\ HasEnvelopeKeys /\ StreamIsMapped
        /\ Envelope["payload"].t = "dict" =>
            LET payload == Envelope["payload"].v
                queue == mapping[Envelope["stream"].v]
            IN /\ last.raised = ""
               /\ Len(last.trace) = 1
               /\ last.trace[1].call = "channel.send" /\ last.trace[1].name = queue
               /\ DOMAIN last.trace[1].arg = DOMAIN payload \cup {"reply_channel"}
               /\ last.trace[1].arg["reply_channel"] = JStr(ReplyChannel(last.conn))
               /\ \A k \in DOMAIN payload \ {"reply_channel"} :
                     last.trace[1].arg[k] = payload[k]
               /\ OnlySent(queue, last.trace[1].arg)

\* The frame {"stream": "chat", "payload": {"msg": "hi"}} of c1 was forwarded
\* to chat-queue with c1's reply channel added.
C3_Witness ==
    /\ last.op = "demux.receive" /\ last.conn = "c1" /\ last.args = [text |-> WireGood]
    /\ last.sent["chat-queue"] =
          <<[msg |-> JStr("hi"), reply_channel |-> JStr("websocket.send!c1")]>>

\* C4: a demultiplexer frame that decodes to something other than an object
\* with a stream key and a payload key raises the missing-keys ValueError;
\* one with both keys, a mapped stream and a payload that is no object
\* raises the payload-shape ValueError; neither forwards anything.
C4_MalformedEnvelopes ==
    last.op = "demux.receive" /\ JsonContent(last.args).raised = "" =>
        /\ ~HasEnvelopeKeys =>
              /\ last.raised =
                    "ValueError: Invalid multiplexed frame received (no channel/payload key)"
              /\ NoChannelSend /\ NothingSent
        /\ HasEnvelopeKeys /\ StreamIsMapped /\ Envelope["payload"].t # "dict" =>
              /\ last.raised = "ValueError: Multiplexed frame payload is not a dict"
              /\ NoChannelSend /\ NothingSent

\* The frame {"stream": "chat", "payload": "hi"} was refused for its payload.
C4_Witness ==
    /\ last.op = "demux.receive" /\ last.args = [text |-> WireStrPayload]
    /\ last.raised = "ValueError: Multiplexed frame payload is not a dict"
    /\ NothingSent

\* C10: with strict_ordering set, however the events of a connection with
\* tokens 1..n reach the workers, at most one of its handlers is running at
\* any time and the handlers run in increasing token order: 1, 2, 3, ...
C10_StrictOrdering ==
    cls.strict_ordering =>
        \A c \in Conns :
            /\ Cardinality(guard[c].running) <= 1
            /\ guard[c].log = [i \in 1..Len(guard[c].log) |-> i]

\* The events reached the workers in the order 1, 3, 2 and their handlers
\* ran in the order 1, 2, 3.
C10_Witness ==
    /\ cls.strict_ordering
    /\ guard["c1"].arrived = <<1, 3, 2>>
    /\ guard["c1"].log = <<1, 2, 3>>

\* The tokens of c whose guarded handler has run.
Handled(c) == Range(guard[c].log)

\* Every emitted event of c is in exactly one place: on its way to a worker,
\* held back, in its handler, or handled once.
ExactlyOnce(c) ==
    LET g == guard[c]
    IN /\ g.inflight \cap g.buffer = {}
       /\ g.inflight \cap g.running = {}
       /\ g.buffer \cap g.running = {}
       /\ (g.inflight \cup g.buffer \cup g.running) \cap Handled(c) = {}
       /\ Cardinality(Handled(c)) = Len(g.log)
       /\ g.inflight \cup g.buffer \cup g.running \cup Handled(c)
            = 1..Len(g.emitted)

\* An event of c is in its handler, or through it, only when the handlers of
\* all events of c with lower tokens have run.
AfterLowerTokens(c) ==
    \A n \in guard[c].running \cup Handled(c) :
        \A m \in 1..(n - 1) : m \in Handled(c)

\* C11: with strict_ordering set the guard delays and never drops: no event is
\* lost or handled twice, an event reaches its handler only after the handlers
\* of all lower tokens have run, and (workers being scheduled fairly) every
\* event the guard holds back is eventually handled.
C11_DelaysNeverDrops ==
    /\ [](cls.strict_ordering =>
            \A c \in OrderConns : ExactlyOnce(c) /\ AfterLowerTokens(c))
    /\ \A c \in OrderConns : \A n \in 1..MaxOrder :
          (cls.strict_ordering /\ n \in guard[c].buffer) ~> (n \in Handled(c))

\* The events reached the workers in the order 3, 2, 1: two of them were held
\* back, and all three handlers have run, in token order.
C11_Witness ==
    /\ cls.strict_ordering
    /\ guard["c1"].arrived = <<3, 2, 1>>
    /\ guard["c1"].buffer = {}
    /\ guard["c1"].log = <<1, 2, 3>>

\* The events of c whose handler method was executed, in the order of
\* execution, as kinds.
Executed(c) ==
    LET ran == SelectSeq(guard[c].log, LAMBDA n : n \notin guard[c].rejected)
    IN [i \in 1..Len(ran) |-> guard[c].emitted[ran[i]]]

LifecycleRank == [connect |-> 1, receive |-> 2, disconnect |-> 3]

\* No receive was executed before the connect, no disconnect before a
\* receive or the connect.
InLifecycleOrder(kinds) ==
    \A i, j \in 1..Len(kinds) :
        i < j => LifecycleRank[kinds[i]] <= LifecycleRank[kinds[j]]

\* The first handler the guard of c let through was that of the connect.
ConnectFirst(c) ==
    guard[c].log # <<>> => guard[c].emitted[guard[c].log[1]] = "connect"

C13_RejectedEventDoesNothing ==
    cls.http_user =>
        \A c \in OrderConns :
            LET log == guard[c].log
            IN (log # <<>> /\ log[Len(log)] \in guard[c].invalid) =>
                  /\ last.op = "rejected"
                  /\ last.trace = <<>>
                  /\ last.raised = ""
                  /\ groups = last.before
                  /\ NothingSent

\* The connect of c1, whose class names groups to join, was refused: c1 is
\* in no group.
C13_Witness ==
    /\ cls.http_user
    /\ connGroups["c1"] # <<>>
    /\ guard["c1"].log = <<1>>
    /\ guard["c1"].rejected = {1}
    /\ last.op = "rejected"
    /\ \A g \in Groups : ReplyChannel("c1") \notin groups[g]

\* Every event of c that reached a worker went straight into its handler.
PassThrough(c) ==
    /\ guard[c].buffer = {}
    /\ Range(guard[c].arrived) = guard[c].running \cup Handled(c)

\* The handlers of c run one at a time and in token order.
StrictlyOrdered(c) ==
    /\ Cardinality(guard[c].running) <= 1
    /\ guard[c].log = [i \in 1..Len(guard[c].log) |-> i]
    /\ AfterLowerTokens(c)

\* Once the connect of c has run, no event of c is held back any more.
NoBufferingAfterConnect(c) ==
    1 \in Handled(c) => guard'[c].buffer \subseteq guard[c].buffer

\* C19: get_handler picks the guard from the two flags: none with both false
\* (events go straight to their handlers, nothing is buffered), the strict
\* guard whenever strict_ordering is set (also with slight_ordering set), the
\* slight guard with slight_ordering alone (the connect runs first, later
\* events are not held back).  With http_user set as well the guard is the
\* outermost decorator: the identity step refuses an event only once the
\* guard has let it through.
C19_GuardSelection ==
    /\ [](\A c \in OrderConns :
            /\ (~cls.strict_ordering /\ ~cls.slight_ordering) => PassThrough(c)
            /\ cls.strict_ordering => StrictlyOrdered(c)
            /\ (cls.slight_ordering /\ ~cls.strict_ordering) => ConnectFirst(c)
            /\ guard[c].rejected \subseteq Handled(c)
            /\ guard[c].rejected \cap guard[c].buffer = {})
    /\ [][\A c \in OrderConns :
            (cls.slight_ordering /\ ~cls.strict_ordering)
                => NoBufferingAfterConnect(c)]_vars

\* With both flags and http_user set, a receive with a refused session
\* reached the workers before the connect: it was held back, and refused only
\* after the connect handler had run.
C19_Witness ==
    /\ cls.strict_ordering /\ cls.slight_ordering /\ cls.http_user
    /\ guard["c1"].arrived = <<2, 1>>
    /\ guard["c1"].log = <<1, 2>>
    /\ guard["c1"].rejected = {2}
    /\ guard["c1"].emitted[2] = "receive"

\* The last handler was the raw_receive of a JSON consumer or of a
\* demultiplexer.
JsonReceive == last.op \in {"json.receive", "demux.receive"}

\* C14: a receive that carries bytes and no text, handled by a JSON consumer
\* or a demultiplexer, raises the "No text section" error; the receive
\* callback is not called and nothing is sent.  (A message whose text is
\* None fails too, in json.loads, before any callback or send.)
C14_BinaryFrameRefused ==
    JsonReceive =>
        /\ "text" \notin DOMAIN last.args =>
              /\ last.raised = "ValueError: No text section for incoming WebSocket frame!"
              /\ last.trace = <<>>
              /\ NothingSent
        /\ ("text" \in DOMAIN last.args /\ last.args["text"] = None) =>
              /\ last.raised # ""
              /\ last.trace = <<>>
              /\ NothingSent

\* A demultiplexer was handed a frame of bytes alone and refused it.
C14_Witness ==
    /\ last.op = "demux.receive" /\ last.args = [bytes |-> "b"]
    /\ last.raised = "ValueError: No text section for incoming WebSocket frame!"
    /\ last.trace = <<>>

\* C17: a receive that fails to decode or to route (any error but the user
\* callback's own) writes nothing to the reply channel, so no close frame,
\* and leaves the groups as they were; a well-formed frame of a connection
\* that had a failure before is forwarded as usual.
C17_ErrorsFatalToOneEvent ==
    /\ (JsonReceive /\ last.raised \notin {"", "UserError"}) =>
          /\ last.trace = <<>>
          /\ NothingSent
          /\ groups = last.before
    /\ (last.op = "demux.receive" /\ hist[last.conn].failed
          /\ HasEnvelopeKeys /\ StreamIsMapped /\ Envelope["payload"].t = "dict") =>
          /\ last.raised = ""
          /\ Len(last.sent[mapping[Envelope["stream"].v]]) = 1

\* c1, whose reply channel is in g1 and g2, sent a frame that is not JSON:
\* the receive failed, c1 is still in its groups and nothing was sent.
C17_Witness ==
    /\ last.op = "demux.receive" /\ last.conn = "c1"
    /\ last.args = [text |-> WireMalformed]
    /\ last.raised = "ValueError: JSONDecodeError"
    /\ \A g \in Range(connGroups["c1"]) : ReplyChannel("c1") \in groups[g]
    /\ groups = last.before

\* C20: every message a demultiplexer forwards has the receiving
\* connection's own reply channel under reply_channel, whatever the payload
\* had under that key; the payload's other keys are forwarded unchanged.
C20_ReplyChannelOverwritten ==
    last.op = "demux.receive" =>
        \A i \in DOMAIN last.trace :
            last.trace[i].call = "channel.send" =>
                /\ HasEnvelopeKeys /\ Envelope["payload"].t = "dict"
                /\ last.trace[i].arg["reply_channel"] = MessageReplyChannel(last.conn)
                /\ DOMAIN last.trace[i].arg
                      = DOMAIN Envelope["payload"].v \cup {"reply_channel"}
                /\ \A k \in DOMAIN Envelope["payload"].v \ {"reply_channel"} :
                      last.trace[i].arg[k] = Envelope["payload"].v[k]

\* c1 sent a payload naming c2's reply channel: the message forwarded names
\* c1's.
C20_Witness ==
    /\ last.op = "demux.receive" /\ last.conn = "c1" /\ last.args = [text |-> WireSpoof]
    /\ Envelope["payload"].v["reply_channel"] = JStr("websocket.send!c2")
    /\ last.sent["chat-queue"] =
          <<[reply_channel |-> JStr("websocket.send!c1"), msg |-> JStr("hi")]>>

\* The groups that connection_groups names for the connection of the last
\* handler, and that connection's reply channel.
LastGroups == Range(connection_groups(last.conn))

LastSink == ReplyChannel(last.conn)

\* C16: a connect leaves the reply channel a member of every group of
\* connection_groups and changes nothing else, so a second connect changes
\* nothing; a disconnect of a connection that is in none of its groups
\* changes nothing and fails in no group call: its callback is reached.
C16_RepeatedEvents ==
    /\ last.op = "connect" =>
          /\ \A g \in Groups :
                groups[g] = last.before[g]
                              \cup (IF g \in LastGroups THEN {LastSink} ELSE {})
          /\ (\A g \in LastGroups : LastSink \in last.before[g])
                => groups = last.before
    /\ (last.op = "disconnect" /\ \A g \in LastGroups : LastSink \notin last.before[g]) =>
          /\ groups = last.before
          /\ last.trace[Len(last.trace)].call = "callback"
          /\ last.raised \in {"", "UserError"}

\* The connect of a connection that was in its two groups already has been
\* processed again: the groups are as they were.
C16_Witness ==
    /\ last.op = "connect" /\ hist[last.conn].connected
    /\ Cardinality(LastGroups) = 2
    /\ \A g \in LastGroups : LastSink \in last.before[g]
    /\ groups = last.before

\* The calls of `trace` are one `call` per group of `names`, in order, with
\* the reply channel `sink`, and then the user callback `name`.
UpdatesThenCallback(trace, call, names, sink, name) ==
    /\ Len(trace) = Len(names) + 1
    /\ \A i \in 1..Len(names) :
          /\ trace[i].call = call
          /\ trace[i].name = names[i]
          /\ trace[i].arg = sink
    /\ trace[Len(trace)].call = "callback"
    /\ trace[Len(trace)].name = name

\* C18: raw_connect makes all its group adds and then calls connect();
\* raw_disconnect makes all its group discards and then calls disconnect();
\* so the groups are updated also when the callback raises.
C18_GroupUpdateBeforeCallback ==
    /\ last.op = "connect" =>
          /\ UpdatesThenCallback(last.trace, "group.add",
                                 connection_groups(last.conn), LastSink, "connect")
          /\ \A g \in LastGroups : LastSink \in groups[g]
    /\ last.op = "disconnect" =>
          /\ UpdatesThenCallback(last.trace, "group.discard",
                                 connection_groups(last.conn), LastSink, "disconnect")
          /\ \A g \in LastGroups : LastSink \notin groups[g]

\* A connect callback raised: the connection had been put in its two groups
\* before the callback was called.
C18_Witness ==
    /\ last.op = "connect" /\ last.raised = "UserError"
    /\ Len(last.trace) = 3
    /\ last.trace[1].call = "group.add" /\ last.trace[2].call = "group.add"
    /\ last.trace[3].call = "callback"
    /\ \A g \in LastGroups : LastSink \notin last.before[g] /\ LastSink \in groups[g]

\* A JSON parser over token sequences: the value a client decodes a text
\* frame to.
ParseFail == [ok |-> FALSE, value |-> None, rest |-> <<>>]

Parsed(value, rest) == [ok |-> TRUE, value |-> value, rest |-> rest]

RECURSIVE ParseValue(_), ParseItems(_, _), ParseMembers(_, _)
ParseValue(toks) ==
    IF toks = <<>> THEN ParseFail
    ELSE LET h == Head(toks)
         IN CASE h.k = "string" -> Parsed(JStr(h.v), Tail(toks))
              [] h.k = "number" -> Parsed(JInt(h.v), Tail(toks))
              [] h = Punct("[") ->
                    IF Len(toks) > 1 /\ toks[2] = Punct("]")
                    THEN Parsed(JList(<<>>), SubSeq(toks, 3, Len(toks)))
                    ELSE ParseItems(Tail(toks), <<>>)
              [] h = Punct("{") ->
                    IF Len(toks) > 1 /\ toks[2] = Punct("}")
                    THEN Parsed(JDict(EmptyDict), SubSeq(toks, 3, Len(toks)))
                    ELSE ParseMembers(Tail(toks), EmptyDict)
              [] OTHER -> ParseFail

\* The elements of a list, from the first token of an element on.
ParseItems(toks, acc) ==
    LET e == ParseValue(toks)
    IN IF ~e.ok \/ e.rest = <<>> THEN ParseFail
       ELSE IF Head(e.rest) = Punct(",")
       THEN ParseItems(Tail(e.rest), Append(acc, e.value))
       ELSE IF Head(e.rest) = Punct("]")
       THEN Parsed(JList(Append(acc, e.value)), Tail(e.rest))
       ELSE ParseFail

\* The members of an object, from the first token of a key on.
ParseMembers(toks, acc) ==
    IF Len(toks) < 3 THEN ParseFail
    ELSE IF toks[1].k # "string" \/ toks[2] # Punct(":") THEN ParseFail
    ELSE LET e == ParseValue(SubSeq(toks, 3, Len(toks)))
         IN IF ~e.ok \/ e.rest = <<>> THEN ParseFail
            ELSE IF Head(e.rest) = Punct(",")
            THEN ParseMembers(Tail(e.rest), Put(acc, toks[1].v, e.value))
            ELSE IF Head(e.rest) = Punct("}")
            THEN Parsed(JDict(Put(acc, toks[1].v, e.value)), Tail(e.rest))
            ELSE ParseFail

\* What decoding the text `toks` as JSON gives.
Decode(toks) ==
    LET r == ParseValue(toks)
    IN IF r.ok /\ r.rest = <<>> THEN Returned(r.value)
       ELSE Raised("ValueError: JSONDecodeError")

\* x is a value of JSON: a string, a number, a list or an object of such.
RECURSIVE JsonRepresentable(_)
JsonRepresentable(x) ==
    CASE x.t \in {"str", "int"} -> TRUE
      [] x.t = "list" -> \A i \in DOMAIN x.v : JsonRepresentable(x.v[i])
      [] x.t = "dict" -> \A key \in DOMAIN x.v : JsonRepresentable(x.v[key])
      [] OTHER -> FALSE

\* The last handler was a send or a group_send of a demultiplexer.
DemuxSent == last.op \in {"demux.send", "demux.group_send"}

\* C15: the frame that a demultiplexer's send or group_send writes for a
\* stream name and a JSON-representable payload has a text and no bytes,
\* and its text decodes to the object with exactly the keys stream and
\* payload, holding that stream name and that payload.
C15_EnvelopeRoundTrip ==
    (DemuxSent /\ JsonRepresentable(last.args.payload)) =>
        /\ Len(last.trace) = 1
        /\ LET frame == last.trace[1].arg
           IN /\ "text" \in DOMAIN frame
              /\ "bytes" \notin DOMAIN frame
              /\ Decode(frame["text"])
                    = Returned(JDict([stream |-> JStr(last.args.stream),
                                      payload |-> last.args.payload]))

\* A payload with a list in it was sent on stream chat: the frame's text
\* decodes to the envelope of chat and that payload.
C15_Witness ==
    /\ last.op = "demux.send" /\ last.args.stream = "chat"
    /\ last.args.payload = JDict([items |-> JList(<<JStr("hi"), JInt(1)>>)])
    /\ DOMAIN last.trace[1].arg = {"text"}
    /\ Decode(last.trace[1].arg["text"]).value.v["payload"] = last.args.payload

====
